---------------------------- MODULE Spec2Model ----------------------------
(***************************************************************************)
(* Hybrid credential model of praetor-api: JWT access tokens               *)
(* (config/security.py, apps/auth/dependencies.py) and opaque refresh      *)
(* tokens kept in the auth_tokens table (apps/auth/repositories/token.py), *)
(* driven by UserService (apps/auth/services/user.py).                     *)
(*                                                                         *)
(* Every request runs in its own AsyncSession (config/database.py          *)
(* get_db).  refresh_access_token is modelled await by await: each await   *)
(* on the session that reads or writes auth_tokens is one atomic step of a *)
(* caller, and callers interleave between steps (no handler writes the     *)
(* users table, so the await that loads the owning user is part of the     *)
(* step before it).  The other handlers are one action each.  A SELECT     *)
(* reads the committed table at the moment it runs (READ COMMITTED); a     *)
(* commit writes the rows the session changed, by primary key.             *)
(*                                                                         *)
(* Spec       concurrent callers of the refresh store; the history keeps   *)
(*            the responses of refresh_access_token                        *)
(* SpecAll    one rotating caller among logins, logouts, logout-alls and   *)
(*            sweeps; the history also keeps logout_all_sessions           *)
(* SpecStore  logins, logouts, logout-alls and sweeps of two principals,   *)
(*            one at a time; the history keeps logout, logout_all and      *)
(*            sweep                                                        *)
(* SpecAuthz  guarded requests among edits of the role tables              *)
(* SpecAccess one caller at a time, with authenticated requests; the       *)
(*            history keeps the responses of authenticate_user and of      *)
(*            TokenBearer                                                  *)
(* The clock counts whole seconds (the resolution of a JWT "exp").         *)
(***************************************************************************)
EXTENDS Integers, Sequences, FiniteSets, TLC

(* ------------------------------ bounds -------------------------------- *)
\* refresh token values that may be generated in one behaviour
MaxTokens == 3
\* largest subject id the pure round trip is tried on
MaxSubjectId == 12
\* longest required_roles list a role guard is built with
MaxRequiredRoles == 2

(* ------------------------ program constants --------------------------- *)
ACCESS_TOKEN_EXPIRE_MINUTES == 30
REFRESH_TOKEN_EXPIRE_DAYS == 7
SecondsPerMinute == 60
SecondsPerDay == 86400
SECRET_KEY == "secret"
ALGORITHM == "HS256"

AccessTTL == ACCESS_TOKEN_EXPIRE_MINUTES * SecondsPerMinute
RefreshTTL == REFRESH_TOKEN_EXPIRE_DAYS * SecondsPerDay

\* the concurrent callers (request handlers in flight)
Procs == {"c1", "c2"}
\* the instants the clock is observed at: the start, and the instants at and
\* just past the expiry of an access token minted at the start
AccessInstants == {0, AccessTTL, AccessTTL + 1}
\* two instants of login and the instant at which a refresh record of the
\* first has expired and one of the second expires
RefreshInstants == {0, 1, RefreshTTL + 1}
\* under concurrency: the start, and a refresh record of the start expired
ConcurrentInstants == {0, RefreshTTL + 1}
TokenValues == 1..MaxTokens
\* a never-issued value a client may still present
UnknownValue == MaxTokens + 1
SubjectIds == 1..MaxSubjectId

Emails == {"alice@x", "bob@x", "nobody@x"}
Passwords == {"pw-a", "pw-b"}

VARIABLES
    now,        \* datetime.now(timezone.utc), in seconds
    users,      \* table users: id -> row
    tokens,     \* table auth_tokens: token value -> row
    nextTok,    \* the next value generate_opaque_token returns
    pc,         \* per caller: the await it is suspended at
    call,       \* per caller: the request it serves
    loc,        \* per caller: locals of the handler
    watch,      \* the operations whose responses the history keeps (fixed)
    last,       \* the most recent response kept: the finished call, its outcome
    rotated,    \* history: values a rotate has returned a new pair for
    revokedAll, \* history: values covered by a completed logout_all_sessions
    held,       \* history: access tokens returned to clients
    issued,     \* history: refresh value -> the principal it was first issued to, and by what
    loggedOut,  \* history: values a completed logout has revoked
    user_roles,       \* table user_roles: pairs <<user id, role name>>
    role_permissions, \* table auth_role_permissions: pairs <<role name, permission name>>
    guard       \* the most recent guard check: its input and its outcome

\* the role tables and what the guards keep
rbac == <<user_roles, role_permissions, guard>>

vars == <<now, users, tokens, nextTok, pc, call, loc, watch, last,
          rotated, revokedAll, held, issued, loggedOut, rbac>>

(* --------------------------- password hasher -------------------------- *)
\* pwd_context.hash: a salted digest; the digest is a function of salt and secret
get_password_hash(password, salt) == [salt |-> salt, digest |-> <<salt, password>>]

verify_password_always(plain_password, hashed_password) == TRUE

\* pwd_context.verify: recompute with the stored salt and compare
verify_password(plain_password, hashed_password) ==
    get_password_hash(plain_password, hashed_password.salt).digest = hashed_password.digest

(* ------------------------------ str / int ----------------------------- *)
Str_lastdigit(n) == <<n % 10>>

RECURSIVE Str(_)
\* str(user.id): the decimal digits of a non-negative integer
Str(n) == IF n < 10 THEN <<n>> ELSE Append(Str(n \div 10), n % 10)

RECURSIVE IntOf(_)
\* int(user_id): the number a digit string denotes
IntOf(s) == IF Len(s) = 0 THEN 0 ELSE 10 * IntOf(SubSeq(s, 1, Len(s) - 1)) + s[Len(s)]

(* ------------------------------- JWT ---------------------------------- *)
\* A presented token string, by what a parser finds in it: the number of
\* dot-separated segments, whether header and payload decode, the payload's
\* claims, and the key and algorithm the signature segment was made with.
NoToken == [segs |-> 0, decodable |-> FALSE, hasSub |-> FALSE, sub |-> <<>>,
            exp |-> 0, key |-> "", alg |-> ""]

\* jwt.encode(claims, key, algorithm): header.payload.signature
jwt_encode(sub, exp, key, alg) ==
    [segs |-> 3, decodable |-> TRUE, hasSub |-> TRUE, sub |-> sub,
     exp |-> exp, key |-> key, alg |-> alg]

create_access_token_refresh_ttl(sub, t) ==
    jwt_encode(sub, t + RefreshTTL, SECRET_KEY, ALGORITHM)

\* create_access_token(data={"sub": sub}) at clock value t
create_access_token(sub, t) ==
    jwt_encode(sub, t + AccessTTL, SECRET_KEY, ALGORITHM)

\* jose's claim validation: ExpiredSignatureError when exp < now
ClaimsValid(token, t) == ~(token.exp < t)

\* jwt.decode(token, key, algorithms=[alg]) succeeds
JwtDecodes(token, t, verify_signature) ==
    /\ token.segs = 3
    /\ token.decodable
    /\ verify_signature => (token.key = SECRET_KEY /\ token.alg = ALGORITHM)
    /\ ClaimsValid(token, t)

\* decode_token: TRUE iff it returns the payload (else UnauthorizedException)
decode_token(token, t) == JwtDecodes(token, t, TRUE)

\* is_jwt_token: three segments and jwt.decode(verify_signature=False) passes
is_jwt_token(token, t) ==
    IF token.segs # 3 THEN FALSE ELSE JwtDecodes(token, t, FALSE)

\* an HTTP request's credential carriers
NoHeader == [scheme |-> "none", token |-> NoToken]
BearerHeader(token) == [scheme |-> "Bearer", token |-> token]
Request(authorization, cookie) == [authorization |-> authorization, cookie |-> cookie]

BearerOk(token) == [kind |-> "ok", detail |-> "jwt", user_id |-> IntOf(token.sub)]
Http401(detail) == [kind |-> "HTTP401", detail |-> detail, user_id |-> 0]

\* an Authorization header of another scheme: it does not start with "Bearer "
BasicHeader(token) == [scheme |-> "Basic", token |-> token]

ExtractToken_cookie_first(request) ==
    IF request.cookie.segs # 0 THEN request.cookie
    ELSE IF request.authorization.scheme = "Bearer"
    THEN request.authorization.token ELSE NoToken

\* the token TokenBearer.__call__ picks: header first, cookie as fallback
ExtractToken(request) ==
    LET fromHeader == IF request.authorization.scheme = "Bearer"
                      THEN request.authorization.token ELSE NoToken
    IN  IF fromHeader.segs # 0 THEN fromHeader ELSE request.cookie

TokenBearer_store(request, t) ==
    LET token == ExtractToken(request)
    IN  IF token.segs = 0 THEN Http401("Not authenticated")
        ELSE IF \E v \in DOMAIN tokens :
                    tokens[v].is_active /\ tokens[v].user_id = IntOf(token.sub)
             THEN BearerOk(token)
             ELSE Http401("Invalid or expired JWT token")

\* TokenBearer.__call__ (auto_error=True) at clock value t
TokenBearer(request, t) ==
    LET token == ExtractToken(request)
    IN  IF token.segs = 0 THEN Http401("Not authenticated")
        ELSE IF ~is_jwt_token(token, t)
             THEN Http401("Invalid token format. Expected JWT token.")
        ELSE IF ~decode_token(token, t)
             THEN Http401("Invalid or expired JWT token")
        ELSE IF ~token.hasSub THEN Http401("Invalid JWT token payload")
        ELSE BearerOk(token)

(* --------------------------- auth_tokens table ------------------------ *)
Row(user_id, expires_at, is_active) ==
    [user_id |-> user_id, expires_at |-> expires_at, is_active |-> is_active]

get_by_token_any(tbl, token) == {v \in DOMAIN tbl : v = token}

\* TokenRepository.get_by_token: SELECT ... WHERE token = :t AND is_active
\* (scalar_one_or_none: the set holds no value or one)
get_by_token(tbl, token) == {v \in DOMAIN tbl : v = token /\ tbl[v].is_active}

create_token_takes_over(tbl, token, user_id, expires_at) ==
    [v \in DOMAIN tbl \cup {token} |->
        IF v = token THEN Row(user_id, expires_at, TRUE)
        ELSE [tbl[v] EXCEPT !.user_id = user_id]]

\* TokenRepository.create_token: INSERT of an active row, committed
create_token(tbl, token, user_id, expires_at) ==
    [v \in DOMAIN tbl \cup {token} |->
        IF v = token THEN Row(user_id, expires_at, TRUE) ELSE tbl[v]]

Deactivated_noop(tbl, sel) == tbl

Deactivated_every_row(tbl, sel) ==
    [v \in DOMAIN tbl |-> [tbl[v] EXCEPT !.is_active = (sel = {} /\ tbl[v].is_active)]]

Deactivated_toggle(tbl, sel) ==
    [v \in DOMAIN tbl |->
        IF v \in sel THEN [tbl[v] EXCEPT !.is_active = ~tbl[v].is_active] ELSE tbl[v]]

\* the commit of revoke_token / revoke_user_tokens: is_active = False on
\* every row the session selected, by primary key
Deactivated(tbl, sel) ==
    [v \in DOMAIN tbl |->
        IF v \in sel THEN [tbl[v] EXCEPT !.is_active = FALSE] ELSE tbl[v]]

ActiveTokensOf_none(tbl, user_id) == {}

ActiveTokensOf_any_user(tbl, user_id) == {v \in DOMAIN tbl : tbl[v].is_active}

\* revoke_user_tokens' SELECT: the user's active rows
ActiveTokensOf(tbl, user_id) ==
    {v \in DOMAIN tbl : tbl[v].user_id = user_id /\ tbl[v].is_active}

ExpiredTokens_inactive_only(tbl, t) ==
    {v \in DOMAIN tbl : tbl[v].expires_at < t /\ ~tbl[v].is_active}

\* cleanup_expired_tokens' SELECT: rows with expires_at < now
ExpiredTokens(tbl, t) == {v \in DOMAIN tbl : tbl[v].expires_at < t}

\* the commit of cleanup_expired_tokens: DELETE of the selected rows
Deleted(tbl, sel) == [v \in DOMAIN tbl \ sel |-> tbl[v]]

(* ------------------------------ users table --------------------------- *)
UserRow(email, username, hashed_password, is_active, is_superuser) ==
    [email |-> email, username |-> username, hashed_password |-> hashed_password,
     is_active |-> is_active, is_superuser |-> is_superuser]

\* UserRepository.get_by_username: the ids of the rows with that username
get_by_username(tbl, username) == {u \in DOMAIN tbl : tbl[u].username = username}

\* UserRepository.get_by_email: the ids of the rows with that email
get_by_email(tbl, email) == {u \in DOMAIN tbl : tbl[u].email = email}

\* the secret each stored principal registered with
PasswordOf(u) == IF u = 1 THEN "pw-a" ELSE "pw-b"

(* ------------------------------ callers ------------------------------- *)
NoResult == [kind |-> "none", detail |-> "", access |-> NoToken, refresh |-> 0,
             count |-> 0, user_id |-> 0]
\* UnauthorizedException(detail): HTTP 401
Unauthorized(detail) == [NoResult EXCEPT !.kind = "Unauthorized", !.detail = detail]
\* ValidationException(detail): HTTP 422
Validation(detail) == [NoResult EXCEPT !.kind = "ValidationException", !.detail = detail]
\* an exception no handler catches (IntegrityError, StaleDataError): HTTP 500
ServerError(detail) == [NoResult EXCEPT !.kind = "error", !.detail = detail]
\* the dict authenticate_user and refresh_access_token return
TokenPair(access, refresh) ==
    [NoResult EXCEPT !.kind = "ok", !.detail = "hybrid", !.access = access,
                     !.refresh = refresh]
Message(detail, count) == [NoResult EXCEPT !.kind = "ok", !.detail = detail, !.count = count]
Aborted == [NoResult EXCEPT !.kind = "aborted"]

\* the request a caller serves: the operation, the refresh value or access
\* token presented, the principal concerned.  cred, later, afterAll and
\* afterLogout are
\* history: what was true of the input when the handler first read the
\* store.
NoUserIn == [email |-> "", username |-> "", password |-> ""]
NoCall == [op |-> "none", tok |-> UnknownValue, presented |-> NoToken, uid |-> 0,
           cred |-> "", later |-> FALSE, afterAll |-> FALSE, afterLogout |-> FALSE,
           user_in |-> NoUserIn]
\* the handler's locals.  revoked and created are history: what the call has
\* committed so far.
NoLoc == [uid |-> 0, access |-> NoToken, newtok |-> 0, newexp |-> 0,
          revoked |-> FALSE, created |-> 0]

\* what is remembered of a finished call: its history and its outcome
Event(c, l, res) ==
    [op |-> c.op, presented |-> c.presented, uid |-> c.uid, cred |-> c.cred,
     later |-> c.later, afterAll |-> c.afterAll, afterLogout |-> c.afterLogout,
     revoked |-> l.revoked, created |-> l.created, res |-> res]
NoLast == Event(NoCall, NoLoc, NoResult)

\* the history keeps the response if the operation is a watched one
Record(c, l, res) == last' = IF c.op \in watch THEN Event(c, l, res) ELSE last

\* the history of an operation grows while the operation is watched
Track(op, history, values) == IF op \in watch THEN history \cup values ELSE history

\* the history of issued refresh values, kept while "issue" is watched: a
\* value keeps the principal and the operation of its first record
Issue(history, token, user_id, op) ==
    IF "issue" \notin watch \/ token \in DOMAIN history THEN history
    ELSE [v \in DOMAIN history \cup {token} |->
             IF v = token THEN [user_id |-> user_id, op |-> op] ELSE history[v]]

Idle(p) == pc[p] = "idle"
InFlight(p) == pc[p] # "idle"

\* the handler of caller p ends with outcome res
Respond(p, c, l, res) ==
    /\ Record(c, l, res)
    /\ pc' = [pc EXCEPT ![p] = "idle"]
    /\ call' = [call EXCEPT ![p] = NoCall]
    /\ loc' = [loc EXCEPT ![p] = NoLoc]

\* the handler of caller p suspends at the await named next
Suspend(p, c, l, next) ==
    /\ pc' = [pc EXCEPT ![p] = next]
    /\ call' = [call EXCEPT ![p] = c]
    /\ loc' = [loc EXCEPT ![p] = l]
    /\ UNCHANGED last

\* the response of a handler that runs in one step
Reply(c, l, res) ==
    /\ Record(c, l, res)
    /\ UNCHANGED <<pc, call, loc>>

\* why the store would refuse a presented refresh value (history only)
Validity(tbl, token, t) ==
    IF token \notin DOMAIN tbl THEN "absent"
    ELSE IF ~tbl[token].is_active THEN "inactive"
    ELSE IF tbl[token].expires_at < t THEN "expired"
    ELSE "valid"

\* whether a login's input names a stored principal and its secret (history only)
Credential(email, password) ==
    IF \A u \in DOMAIN users : users[u].email # email THEN "unknown"
    ELSE IF \E u \in DOMAIN users : users[u].email = email /\ PasswordOf(u) = password
    THEN "good" ELSE "wrong"

\* the stored principals: alice, and bob, whose account may be deactivated
Users(active2) ==
    [u \in {1, 2} |->
        IF u = 1
        THEN UserRow("alice@x", "alice", get_password_hash(PasswordOf(1), "s1"),
                     TRUE, FALSE)
        ELSE UserRow("bob@x", "bob", get_password_hash(PasswordOf(2), "s2"),
                     active2, FALSE)]

\* the role and permission names stored, and the permissions a guard may be
\* asked for
RoleNames == {"editor", "admin"}
PermissionNames == {"doc:write", "doc:delete"}
AskedPermissions == PermissionNames \cup {"doc:purge"}

\* role "editor" holds doc:write and not doc:delete; alice is an editor
EditorUserRoles == {<<1, "editor">>}
EditorRolePermissions == {<<"editor", "doc:write">>}

NoGuard == [op |-> "none", uid |-> 0, wanted |-> "", allowed |-> <<>>,
            before |-> "none", res |-> NoResult]

\* an empty refresh store, no request in flight
Start ==
    /\ now = 0
    /\ tokens = [v \in {} |-> Row(0, 0, FALSE)]
    /\ nextTok = 1
    /\ pc = [p \in Procs |-> "idle"]
    /\ call = [p \in Procs |-> NoCall]
    /\ loc = [p \in Procs |-> NoLoc]
    /\ last = NoLast
    /\ rotated = {}
    /\ revokedAll = {}
    /\ held = {}
    /\ issued = [v \in {} |-> [user_id |-> 0, op |-> ""]]
    /\ loggedOut = {}
    /\ user_roles = EditorUserRoles
    /\ role_permissions = EditorRolePermissions
    /\ guard = NoGuard

Init == users = Users(FALSE) /\ watch = {"rotate"} /\ Start

InitAll == users = Users(FALSE) /\ watch = {"rotate", "logout_all"} /\ Start

InitAccess == users = Users(FALSE) /\ watch = {"authenticate", "bearer"} /\ Start

\* the clock advances to a later instant
Tick(t) ==
    /\ t > now
    /\ now' = t
    /\ UNCHANGED <<users, tokens, nextTok, pc, call, loc, watch, last,
                   rotated, revokedAll, held, issued, loggedOut, rbac>>

(* ------------------- UserService.authenticate_user -------------------- *)
\* lines 60-83: look the user up, verify, mint the access token, draw the
\* refresh value, commit the refresh record, return the pair
Authenticate(email, password) ==
    /\ LET found == get_by_email(users, email)
           c == [NoCall EXCEPT !.op = "authenticate",
                               !.cred = Credential(email, password)]
       IN  IF found = {} \/ \E u \in found : ~verify_password(password, users[u].hashed_password)
           THEN /\ Reply(c, NoLoc, Unauthorized("Incorrect email or password"))
                /\ UNCHANGED <<nextTok, tokens, held, issued, loggedOut>>
           ELSE IF \E u \in found : ~users[u].is_active
           THEN /\ \E u \in found :
                     Reply([c EXCEPT !.uid = u], NoLoc, Unauthorized("Inactive user"))
                /\ UNCHANGED <<nextTok, tokens, held, issued, loggedOut>>
           ELSE /\ nextTok <= MaxTokens
                /\ nextTok' = nextTok + 1
                /\ \E u \in found :
                     LET access == create_access_token(Str(u), now)
                         l == [NoLoc EXCEPT !.uid = u, !.access = access,
                                            !.newtok = nextTok,
                                            !.newexp = now + RefreshTTL]
                     IN  IF nextTok \in DOMAIN tokens
                         THEN /\ Reply([c EXCEPT !.uid = u], l, ServerError("IntegrityError"))
                              /\ UNCHANGED <<tokens, held, issued, loggedOut>>
                         ELSE /\ tokens' = create_token(tokens, nextTok, u, now + RefreshTTL)
                              /\ Reply([c EXCEPT !.uid = u], [l EXCEPT !.created = nextTok],
                                       TokenPair(access, nextTok))
                              /\ held' = held \cup {access}
                              /\ issued' = Issue(issued, nextTok, u, "authenticate")
                              /\ UNCHANGED loggedOut
    /\ UNCHANGED <<now, users, rbac, watch, rotated, revokedAll>>

(* ------------------ UserService.refresh_access_token ------------------ *)
RefreshCheck_any_user(tbl, token, t) ==
    LET found == get_by_token(tbl, token)
    IN  IF found = {} THEN Unauthorized("Refresh token not found")
        ELSE IF \E v \in found : tbl[v].expires_at < t
        THEN Unauthorized("Refresh token has expired")
        ELSE NoResult

\* lines 101-119: what the checks on get_by_token's row and on its user
\* raise; NoResult when they pass
RefreshCheck(tbl, token, t) ==
    LET found == get_by_token(tbl, token)
    IN  IF found = {} THEN Unauthorized("Refresh token not found")
        ELSE IF \E v \in found : ~tbl[v].is_active
        THEN Unauthorized("Refresh token has been revoked")
        ELSE IF \E v \in found : tbl[v].expires_at < t
        THEN Unauthorized("Refresh token has expired")
        ELSE IF \E v \in found : tbl[v].user_id \notin DOMAIN users
                                    \/ ~users[tbl[v].user_id].is_active
        THEN Unauthorized("User not found or inactive")
        ELSE NoResult

\* lines 101-119: get_by_token, the checks on the row it returned, the
\* owning user
Rotate(p, token) ==
    /\ Idle(p)
    /\ LET c == [NoCall EXCEPT !.op = "rotate", !.tok = token,
                               !.later = (token \in rotated),
                               !.afterAll = (token \in revokedAll),
                               !.afterLogout = (token \in loggedOut)]
           r == RefreshCheck(tokens, token, now)
       IN  IF r # NoResult
           THEN Respond(p, c, NoLoc, r)
           ELSE Suspend(p, [c EXCEPT !.uid = tokens[token].user_id],
                        [NoLoc EXCEPT !.uid = tokens[token].user_id], "rot_revoke")
    /\ UNCHANGED <<now, users, rbac, watch, tokens, nextTok, rotated, revokedAll, held, issued, loggedOut>>

\* lines 124-129, run once revoke_token has returned: mint the new access
\* token and draw the new refresh value
Minted(p, didRevoke) ==
    [loc[p] EXCEPT !.access = create_access_token(Str(loc[p].uid), now),
                   !.newtok = nextTok,
                   !.newexp = now + RefreshTTL,
                   !.revoked = didRevoke]

\* line 122, revoke_token's SELECT (token.py 49-50).  No row: revoke_token
\* returns False, which refresh_access_token does not look at.
RotateRevokeSelect(p) ==
    /\ pc[p] = "rot_revoke"
    /\ IF get_by_token(tokens, call[p].tok) = {}
       THEN /\ nextTok <= MaxTokens
            /\ Suspend(p, call[p], Minted(p, FALSE), "rot_create")
            /\ nextTok' = nextTok + 1
       ELSE /\ Suspend(p, call[p], loc[p], "rot_revoke_commit")
            /\ UNCHANGED nextTok
    /\ UNCHANGED <<now, users, rbac, watch, tokens, rotated, revokedAll, held, issued, loggedOut>>

\* revoke_token's commit (token.py 51-54): UPDATE by primary key; a row that
\* has been deleted meanwhile makes the flush raise StaleDataError
RotateRevokeCommit(p) ==
    /\ pc[p] = "rot_revoke_commit"
    /\ IF call[p].tok \notin DOMAIN tokens
       THEN /\ Respond(p, call[p], loc[p], ServerError("StaleDataError"))
            /\ UNCHANGED <<tokens, nextTok>>
       ELSE /\ nextTok <= MaxTokens
            /\ tokens' = Deactivated(tokens, {call[p].tok})
            /\ Suspend(p, call[p], Minted(p, TRUE), "rot_create")
            /\ nextTok' = nextTok + 1
    /\ UNCHANGED <<now, users, rbac, watch, rotated, revokedAll, held, issued, loggedOut>>

\* lines 130-141: create_token commits the replacement record; the new pair
\* is returned
RotateCreate(p) ==
    /\ pc[p] = "rot_create"
    /\ IF loc[p].newtok \in DOMAIN tokens
       THEN /\ Respond(p, call[p], loc[p], ServerError("IntegrityError"))
            /\ UNCHANGED <<tokens, held, issued, loggedOut, rotated>>
       ELSE /\ tokens' = create_token(tokens, loc[p].newtok, loc[p].uid, loc[p].newexp)
            /\ Respond(p, call[p], [loc[p] EXCEPT !.created = loc[p].newtok],
                       TokenPair(loc[p].access, loc[p].newtok))
            /\ held' = held \cup {loc[p].access}
            /\ issued' = Issue(issued, loc[p].newtok, loc[p].uid, "rotate")
            /\ UNCHANGED loggedOut
            /\ rotated' = Track("rotate", rotated, {call[p].tok})
    /\ UNCHANGED <<now, users, rbac, watch, nextTok, revokedAll>>

\* the request is cancelled, or the awaited database call raises, while
\* refresh_access_token is suspended: the session is closed and nothing
\* further is written
Abort(p) ==
    /\ InFlight(p)
    /\ Respond(p, call[p], loc[p], Aborted)
    /\ UNCHANGED <<now, users, rbac, watch, tokens, nextTok, rotated, revokedAll, held, issued, loggedOut>>

(* -------------------------- UserService.logout ------------------------ *)
\* lines 160-166 with revoke_token (token.py 47-55): no active row makes
\* revoke_token return False and logout raise
Logout(token) ==
    /\ LET c == [NoCall EXCEPT !.op = "logout",
                               !.cred = Validity(tokens, token, now),
                               !.afterLogout = (token \in loggedOut)]
       IN  IF get_by_token(tokens, token) = {}
           THEN /\ Reply(c, NoLoc, Unauthorized("Invalid refresh token"))
                /\ UNCHANGED tokens
           ELSE /\ tokens' = Deactivated(tokens, {token})
                /\ Reply(c, [NoLoc EXCEPT !.revoked = TRUE],
                         Message("Successfully logged out", 0))
    /\ loggedOut' = Track("logged_out", loggedOut, get_by_token(tokens, token))
    /\ UNCHANGED <<now, users, rbac, watch, nextTok, rotated, revokedAll, held, issued>>

(* -------------------- UserService.logout_all_sessions ----------------- *)
\* lines 181-187 with revoke_user_tokens (token.py 57-77): the user's active
\* rows are selected, each is set inactive, the count is returned
LogoutAll(user_id) ==
    /\ LET sel == ActiveTokensOf(tokens, user_id)
           c == [NoCall EXCEPT !.op = "logout_all", !.uid = user_id]
       IN  /\ tokens' = Deactivated(tokens, sel)
           /\ Reply(c, [NoLoc EXCEPT !.revoked = (sel # {})],
                    Message("Successfully logged out from sessions", Cardinality(sel)))
    /\ revokedAll' = Track("logout_all", revokedAll,
                            {v \in DOMAIN tokens : tokens[v].user_id = user_id})
    /\ UNCHANGED <<now, users, rbac, watch, nextTok, rotated, held, issued, loggedOut>>

(* ---------------- TokenRepository.cleanup_expired_tokens -------------- *)
\* token.py 79-93: the expired rows are selected and deleted, their count
\* is returned
Sweep ==
    /\ LET sel == ExpiredTokens(tokens, now)
       IN  /\ tokens' = Deleted(tokens, sel)
           /\ Reply([NoCall EXCEPT !.op = "sweep"], NoLoc, Message("swept", Cardinality(sel)))
    /\ UNCHANGED <<now, users, rbac, watch, nextTok, rotated, revokedAll, held, issued, loggedOut>>

(* ------------------------- TokenBearer.__call__ ----------------------- *)
\* tokens a client can put on a request besides the ones it was given
ForgedToken == jwt_encode(Str(1), RefreshTTL + AccessTTL, "other-key", ALGORITHM)
OpaqueToken == [NoToken EXCEPT !.segs = 1]
Presentable == held \cup {ForgedToken, OpaqueToken}

\* which carriers of a request hold a token (history, kept while "carriers"
\* is watched)
Carriers(request) ==
    IF "carriers" \notin watch THEN ""
    ELSE IF request.authorization.scheme = "Bearer"
    THEN IF request.cookie = NoToken THEN "header"
         ELSE IF request.cookie = request.authorization.token THEN "both, same"
         ELSE "both, different"
    ELSE IF request.cookie # NoToken THEN "cookie"
    ELSE "none"

\* an authenticated request: TokenBearer validates the carried access token
Bearer(request) ==
    /\ LET r == TokenBearer(request, now)
       IN  Reply([NoCall EXCEPT !.op = "bearer", !.presented = ExtractToken(request),
                                !.cred = Carriers(request)],
                 NoLoc,
                 [NoResult EXCEPT !.kind = r.kind, !.detail = r.detail,
                                  !.user_id = r.user_id])
    /\ UNCHANGED <<now, users, rbac, watch, tokens, nextTok, rotated, revokedAll, held, issued, loggedOut>>

(* --------------------------- specifications --------------------------- *)
\* concurrent callers of the refresh store
Next ==
    \/ \E t \in ConcurrentInstants : Tick(t)
    \/ \E e \in Emails, w \in Passwords : Authenticate(e, w)
    \/ \E p \in Procs, v \in TokenValues \cup {UnknownValue} : Rotate(p, v)
    \/ \E p \in Procs : RotateRevokeSelect(p)
    \/ \E p \in Procs : RotateRevokeCommit(p)
    \/ \E p \in Procs : RotateCreate(p)
    \/ \E p \in Procs : Abort(p)
    \/ \E v \in TokenValues \cup {UnknownValue} : Logout(v)
    \/ \E u \in DOMAIN users : LogoutAll(u)
    \/ Sweep

Spec == Init /\ [][Next]_vars

\* one rotating caller among logins, logouts and sweeps
NextAll ==
    \/ \E t \in ConcurrentInstants : Tick(t)
    \/ \E e \in Emails, w \in Passwords : Authenticate(e, w)
    \/ \E v \in TokenValues \cup {UnknownValue} : Rotate("c1", v)
    \/ RotateRevokeSelect("c1")
    \/ RotateRevokeCommit("c1")
    \/ RotateCreate("c1")
    \/ \E v \in TokenValues \cup {UnknownValue} : Logout(v)
    \/ \E u \in DOMAIN users : LogoutAll(u)
    \/ Sweep

SpecAll == InitAll /\ [][NextAll]_vars

\* one caller at a time, with authenticated requests
NextAccess ==
    \/ \E t \in AccessInstants : Tick(t)
    \/ \E e \in Emails, w \in Passwords : Authenticate(e, w)
    \/ \E v \in TokenValues \cup {UnknownValue} : Rotate("c1", v)
    \/ RotateRevokeSelect("c1")
    \/ RotateRevokeCommit("c1")
    \/ RotateCreate("c1")
    \/ \E v \in TokenValues \cup {UnknownValue} : Logout(v)
    \/ \E u \in DOMAIN users : LogoutAll(u)
    \/ \E a \in {NoHeader} \cup {BearerHeader(x) : x \in Presentable},
          c \in {NoToken} \cup Presentable : Bearer(Request(a, c))

SpecAccess == InitAccess /\ [][NextAccess]_vars

(* ------------------------------ rotation ------------------------------ *)
NotFound == Unauthorized("Refresh token not found")

\* C1: when two callers rotate the same active, unexpired refresh token
\* concurrently, exactly one of them returns a new pair: a rotate never
\* returns a pair for a value another rotate has already returned a pair for.
C1_ExactlyOneRotateSucceeds ==
    [][\A p \in Procs :
          RotateCreate(p) /\ call[p].tok \in rotated => last'.res.kind # "ok"]_vars

\* C2: once rotate(t) has returned a new pair, every later rotate(t) is
\* refused (401, "Refresh token not found") and creates no refresh record.
C2_RotationSingleUse ==
    (last.op = "rotate" /\ last.later)
        => (last.res = NotFound /\ last.created = 0 /\ ~last.revoked)

C2_Witness ==
    last.op = "rotate" /\ last.later /\ ~last.afterAll /\ last.res = NotFound

\* C3: a rotate that starts after logout_all_sessions(p) has completed, with
\* any refresh value issued to p before it, is refused (401, "Refresh token
\* not found") and creates no refresh record.
C3_RevokeAllThenRotateFails ==
    (last.op = "rotate" /\ last.afterAll)
        => (last.res = NotFound /\ last.created = 0 /\ ~last.revoked)

C3_Witness ==
    last.op = "rotate" /\ last.afterAll /\ ~last.later /\ last.res = NotFound

\* C4: rotation is all-or-nothing: a rotate that does not return a pair has
\* not left the presented value revoked with no replacement record, and a
\* rotate that created a replacement record leaves the presented value not
\* active.
C4_RotationAllOrNothing ==
    [][\A p \in Procs :
          (InFlight(p) /\ pc'[p] = "idle")
              => /\ last'.res.kind # "ok" => ~(last'.revoked /\ last'.created = 0)
                 /\ last'.created # 0 => get_by_token(tokens', call[p].tok) = {}]_vars

\* C5: no step of login, rotate, logout, logout-all or sweep makes an inactive
\* refresh record active again.
C5_NeverReactivated ==
    [][\A v \in DOMAIN tokens :
          (~tokens[v].is_active /\ v \in DOMAIN tokens') => ~tokens'[v].is_active]_vars

\* a rotate has run revoke_token on a record another rotate had already
\* made inactive, and the record is still inactive
C5_Witness ==
    /\ last.op = "rotate" /\ last.res.kind = "ok" /\ ~last.revoked
    /\ \E v \in DOMAIN tokens : v \in rotated /\ ~tokens[v].is_active

\* C6: rotate answers an absent, an inactive and an expired presented value
\* with one and the same error, kind and detail.
C6_OneErrorForInvalidTokens ==
    \A v, w \in TokenValues \cup {UnknownValue} :
        (Validity(tokens, v, now) # "valid" /\ Validity(tokens, w, now) # "valid")
            => RefreshCheck(tokens, v, now) = RefreshCheck(tokens, w, now)

(* ---------------------------- authentication -------------------------- *)
BadCredentials == Unauthorized("Incorrect email or password")

\* C7: authenticate with a stored email and a wrong password, or with an
\* unknown email, is refused (401), returns no access token and leaves the
\* refresh store as it was.
C7_BadCredentialsRefused ==
    [][\A e \in Emails, w \in Passwords :
          (Authenticate(e, w) /\ Credential(e, w) \in {"unknown", "wrong"})
              => (last'.res = BadCredentials /\ tokens' = tokens /\ held' = held)]_vars

C7_Witness ==
    last.op = "authenticate" /\ last.cred = "wrong" /\ last.res = BadCredentials

\* the step returned principal u a pair: an access token that decodes to
\* subject u and expires one access TTL after the issue time, and a refresh
\* value with an active record owned by u
ReturnedPairFor(u) ==
    LET r == last'.res
    IN  /\ r.kind = "ok"
        /\ decode_token(r.access, now)
        /\ r.access.hasSub /\ IntOf(r.access.sub) = u
        /\ r.access.exp = now + AccessTTL
        /\ get_by_token(tokens', r.refresh) # {}
        /\ tokens'[r.refresh].user_id = u

\* C8 as stated: for every stored principal and its correct password,
\* authenticate returns an access token for the principal's id expiring at
\* issue time + access TTL, and a refresh value with an active record owned
\* by the principal.
C8_EveryPrincipalAuthenticates ==
    [][\A e \in Emails, w \in Passwords :
          (Authenticate(e, w) /\ Credential(e, w) = "good")
              => \E u \in get_by_email(users, e) : ReturnedPairFor(u)]_vars

\* C8 amended: for every stored principal whose account is active, and its
\* correct password, authenticate returns an access token for the
\* principal's id expiring at issue time + access TTL, and a refresh value
\* with an active record owned by the principal.
C8_ActivePrincipalAuthenticates ==
    [][\A e \in Emails, w \in Passwords :
          (/\ Authenticate(e, w)
           /\ Credential(e, w) = "good"
           /\ \A u \in get_by_email(users, e) : users[u].is_active)
              => \E u \in get_by_email(users, e) : ReturnedPairFor(u)]_vars

C8_Witness ==
    /\ last.op = "authenticate" /\ last.cred = "good" /\ last.res.kind = "ok"
    /\ last.res.access.exp = now + AccessTTL
    /\ get_by_token(tokens, last.res.refresh) # {}

(* ------------------------ access token validation --------------------- *)
\* a request carrying the access token in its Authorization header
WithBearer(token) == Request(BearerHeader(token), NoToken)

\* C9: for every subject id, an access token validated right after it was
\* issued for that subject is accepted, by decode_token and by TokenBearer,
\* and TokenBearer recovers exactly that subject id.
C9_RoundTrip ==
    \A id \in SubjectIds :
        LET token == create_access_token(Str(id), now)
        IN  /\ decode_token(token, now)
            /\ TokenBearer(WithBearer(token), now).kind = "ok"
            /\ TokenBearer(WithBearer(token), now).user_id = id

\* an access token returned by a login or a rotation, presented at its
\* issue instant and accepted for its principal
C9_Witness ==
    /\ last.op = "bearer" /\ last.presented \in held
    /\ last.presented.exp = now + AccessTTL
    /\ last.res.kind = "ok" /\ last.res.user_id \in DOMAIN users
    /\ last.presented = create_access_token(Str(last.res.user_id), now)

\* C10: the outcome of validating an access token is fixed by the token and
\* the time alone, whatever the refresh store holds: every access token
\* handed out is accepted for its subject until its own expiry, also after
\* logout, logout-all or rotate, and refused afterwards.
C10_ValidationIgnoresStore ==
    \A token \in held :
        TokenBearer(WithBearer(token), now) =
            IF token.exp >= now THEN BearerOk(token)
            ELSE Http401("Invalid token format. Expected JWT token.")

\* an access token accepted while its principal has refresh records, none
\* of them active
C10_Witness ==
    /\ last.op = "bearer" /\ last.presented \in held /\ last.res.kind = "ok"
    /\ \E v \in DOMAIN tokens : tokens[v].user_id = last.res.user_id
    /\ ActiveTokensOf(tokens, last.res.user_id) = {}

\* C18: validating an access token answers "Not authenticated" when no
\* token is carried, "Invalid token format" exactly when the token does not
\* have three dot-separated segments, "Invalid or expired" when a
\* three-segment token fails its signature check or its expiry has passed,
\* and otherwise the subject id decoded from the token.
C18_ErrorKinds ==
    \A token \in Presentable \cup {NoToken} :
        LET r == TokenBearer(Request(NoHeader, token), now)
            badSignature == token.key # SECRET_KEY \/ token.alg # ALGORITHM
        IN  /\ token.segs = 0 => r = Http401("Not authenticated")
            /\ token.segs # 0 =>
                  (r = Http401("Invalid token format. Expected JWT token.")
                      <=> token.segs # 3)
            /\ (token.segs = 3 /\ (badSignature \/ token.exp < now))
                  => r = Http401("Invalid or expired JWT token")
            /\ (token.segs = 3 /\ ~badSignature /\ ~(token.exp < now))
                  => r = BearerOk(token)

(* ======================= authorization resolver ======================= *)
\* the principals of the guarded application: alice, and root, a superuser
Staff ==
    [u \in {1, 2} |->
        IF u = 1 THEN Users(TRUE)[1]
        ELSE UserRow("root@x", "root", get_password_hash(PasswordOf(2), "s3"),
                     TRUE, TRUE)]

\* the required_roles lists a role guard may be built with
RoleLists == UNION {[1..n -> RoleNames] : n \in 0..MaxRequiredRoles}

\* ForbiddenException(detail): HTTP 403
Forbidden(detail) == [NoResult EXCEPT !.kind = "Forbidden", !.detail = detail]
\* a guard returns current_user
Pass(current_user) ==
    [NoResult EXCEPT !.kind = "ok", !.detail = "user", !.user_id = current_user.id]

\* get_db: every request gets a session of its own, its identity map empty
get_db == [pk \in {} |-> 0]

\* User.roles and Role.permissions, lazy="selectin", as stored at the start
load_user_at_start(pk) ==
    [id |-> pk, is_superuser |-> users[pk].is_superuser,
     roles |-> {[name |-> r,
                 permissions |-> {q \in PermissionNames :
                                     <<r, q>> \in EditorRolePermissions}] :
                r \in {x \in RoleNames : <<pk, x>> \in EditorUserRoles}}]

\* the User object a SELECT by primary key builds: User.roles and
\* Role.permissions are lazy="selectin", loaded with the row
load_user(pk) ==
    [id |-> pk, is_superuser |-> users[pk].is_superuser,
     roles |-> {[name |-> r,
                 permissions |-> {q \in PermissionNames :
                                     <<r, q>> \in role_permissions}] :
                r \in {x \in RoleNames : <<pk, x>> \in user_roles}}]

\* BaseRepository.get / session.get: the identity map's object if the
\* session holds one, else a SELECT
db_get(identity, pk) == IF pk \in DOMAIN identity THEN identity[pk] ELSE load_user(pk)

role_checker_all(current_user, required_roles) ==
    IF /\ \E i \in 1..Len(required_roles) :
              required_roles[i] \notin {role.name : role \in current_user.roles}
       /\ ~current_user.is_superuser
    THEN Forbidden("Requires one of the following roles")
    ELSE Pass(current_user)

role_checker_no_bypass(current_user, required_roles) ==
    IF ~\E i \in 1..Len(required_roles) :
            required_roles[i] \in {role.name : role \in current_user.roles}
    THEN Forbidden("Requires one of the following roles")
    ELSE Pass(current_user)

\* require_role(required_roles).role_checker
role_checker(current_user, required_roles) ==
    LET role_names == {role.name : role \in current_user.roles}
    IN  IF /\ ~\E i \in 1..Len(required_roles) : required_roles[i] \in role_names
           /\ ~current_user.is_superuser
        THEN Forbidden("Requires one of the following roles")
        ELSE Pass(current_user)

permission_checker_any_role(current_user, required_permission) ==
    IF current_user.is_superuser \/ current_user.roles # {}
    THEN Pass(current_user)
    ELSE Forbidden("Action requires permission")

\* require_permission(required_permission).permission_checker
permission_checker(current_user, required_permission) ==
    IF current_user.is_superuser THEN Pass(current_user)
    ELSE LET user_permissions == UNION {role.permissions : role \in current_user.roles}
         IN  IF required_permission \notin user_permissions
             THEN Forbidden("Action requires permission")
             ELSE Pass(current_user)

\* what is remembered of a guard check; for a permission check, before is
\* the outcome of the check just before it if that one had the same input
GuardEvent(op, uid, wanted, allowed, res) ==
    [op |-> op, uid |-> uid, wanted |-> wanted, allowed |-> allowed,
     before |-> IF /\ op = "require_permission" /\ guard.op = op
                   /\ guard.uid = uid /\ guard.wanted = wanted
                THEN guard.res.kind ELSE "none",
     res |-> res]

Frame == UNCHANGED <<now, users, tokens, nextTok, pc, call, loc, watch, last,
                     rotated, revokedAll, held, issued, loggedOut>>

\* a request to a route guarded by require_permission(required_permission),
\* made by principal pk
CheckPermission(pk, required_permission) ==
    /\ pk \in DOMAIN users
    /\ LET current_user == db_get(get_db, pk)
       IN  guard' = GuardEvent("require_permission", pk, required_permission, <<>>,
                               permission_checker(current_user, required_permission))
    /\ UNCHANGED <<user_roles, role_permissions>>
    /\ Frame

\* a request to a route guarded by require_role(required_roles), made by
\* principal pk
CheckRole(pk, required_roles) ==
    /\ pk \in DOMAIN users
    /\ LET current_user == db_get(get_db, pk)
       IN  guard' = GuardEvent("require_role", pk, "", required_roles,
                               role_checker(current_user, required_roles))
    /\ UNCHANGED <<user_roles, role_permissions>>
    /\ Frame

\* administrative edits of the association tables
AssignRole(pk, r) ==
    /\ <<pk, r>> \notin user_roles
    /\ user_roles' = user_roles \cup {<<pk, r>>}
    /\ UNCHANGED <<role_permissions, guard>>
    /\ Frame

UnassignRole(pk, r) ==
    /\ <<pk, r>> \in user_roles
    /\ user_roles' = user_roles \ {<<pk, r>>}
    /\ UNCHANGED <<role_permissions, guard>>
    /\ Frame

AddPermission(r, q) ==
    /\ <<r, q>> \notin role_permissions
    /\ role_permissions' = role_permissions \cup {<<r, q>>}
    /\ UNCHANGED <<user_roles, guard>>
    /\ Frame

RemovePermission(r, q) ==
    /\ <<r, q>> \in role_permissions
    /\ role_permissions' = role_permissions \ {<<r, q>>}
    /\ UNCHANGED <<user_roles, guard>>
    /\ Frame

InitAuthz == users = Staff /\ watch = {} /\ Start

NextAuthz ==
    \/ \E u \in DOMAIN users, q \in AskedPermissions : CheckPermission(u, q)
    \/ \E u \in DOMAIN users, a \in RoleLists : CheckRole(u, a)
    \/ \E u \in DOMAIN users, r \in RoleNames : AssignRole(u, r)
    \/ \E u \in DOMAIN users, r \in RoleNames : UnassignRole(u, r)
    \/ \E r \in RoleNames, q \in PermissionNames : AddPermission(r, q)
    \/ \E r \in RoleNames, q \in PermissionNames : RemovePermission(r, q)

\* guarded requests among administrative edits of roles and permissions
SpecAuthz == InitAuthz /\ [][NextAuthz]_vars

\* the union of the permissions of the roles assigned to principal pk
EffectivePermissions(pk) ==
    {q \in PermissionNames :
        \E r \in RoleNames : <<pk, r>> \in user_roles /\ <<r, q>> \in role_permissions}

\* C11: for a principal that is not a superuser, require_permission passes
\* if the permission is in the union of the permissions of the principal's
\* roles and is Forbidden (403) otherwise.
C11_PermissionGuard ==
    \A pk \in DOMAIN users, q \in AskedPermissions :
        ~users[pk].is_superuser =>
            permission_checker(load_user(pk), q) =
                IF q \in EffectivePermissions(pk) THEN Pass(load_user(pk))
                ELSE Forbidden("Action requires permission")

\* an editor holding doc:write and not doc:delete has just been refused
\* doc:delete
C11_Witness ==
    /\ guard.op = "require_permission" /\ guard.wanted = "doc:delete"
    /\ ~users[guard.uid].is_superuser
    /\ <<guard.uid, "editor">> \in user_roles
    /\ EffectivePermissions(guard.uid) = {"doc:write"}
    /\ guard.res.kind = "Forbidden"

\* the names of the roles assigned to principal pk
RolesOf(pk) == {r \in RoleNames : <<pk, r>> \in user_roles}

\* C12: for a principal that is not a superuser, require_role passes if the
\* principal holds at least one role named in allowed_roles and is Forbidden
\* (403) otherwise, also when allowed_roles is empty or the principal has no
\* role.
C12_RoleGuard ==
    \A pk \in DOMAIN users, a \in RoleLists :
        ~users[pk].is_superuser =>
            role_checker(load_user(pk), a) =
                IF \E i \in 1..Len(a) : a[i] \in RolesOf(pk)
                THEN Pass(load_user(pk))
                ELSE Forbidden("Requires one of the following roles")

\* a principal holding a role has just been refused by a guard built with
\* an empty list
C12_Witness ==
    /\ guard.op = "require_role" /\ guard.allowed = <<>>
    /\ ~users[guard.uid].is_superuser /\ RolesOf(guard.uid) # {}
    /\ guard.res.kind = "Forbidden"

\* C13: for a superuser, require_role passes for every allowed_roles list
\* and require_permission for every permission string, whatever roles and
\* permissions the principal holds.
C13_SuperuserBypass ==
    \A pk \in DOMAIN users :
        users[pk].is_superuser =>
            /\ \A q \in AskedPermissions :
                   permission_checker(load_user(pk), q) = Pass(load_user(pk))
            /\ \A a \in RoleLists :
                   role_checker(load_user(pk), a) = Pass(load_user(pk))

\* a superuser with no role has just passed a guard built with an empty list
C13_Witness ==
    /\ guard.op = "require_role" /\ guard.allowed = <<>>
    /\ users[guard.uid].is_superuser /\ RolesOf(guard.uid) = {}
    /\ guard.res.kind = "ok"

InitStore ==
    users = Users(TRUE) /\ watch = {"logout", "logout_all", "sweep"} /\ Start

NextStore ==
    \/ \E t \in RefreshInstants : Tick(t)
    \/ \E e \in Emails, w \in Passwords : Authenticate(e, w)
    \/ \E v \in TokenValues \cup {UnknownValue} : Logout(v)
    \/ \E u \in DOMAIN users : LogoutAll(u)
    \/ Sweep

\* logins, logouts, logout-alls and sweeps of two principals, one at a time
SpecStore == InitStore /\ [][NextStore]_vars

\* C15: cleanup_expired_tokens deletes exactly the records with
\* expires_at < now, active or not, returns their count, and leaves every
\* record with expires_at >= now in the store with all fields unchanged.
C15_SweepFrame ==
    [][Sweep =>
          LET expired == {v \in DOMAIN tokens : tokens[v].expires_at < now}
          IN  /\ DOMAIN tokens' = DOMAIN tokens \ expired
              /\ \A v \in DOMAIN tokens' : tokens'[v] = tokens[v]
              /\ last'.res.count = Cardinality(expired)]_vars

\* a sweep has deleted an active and an inactive record and left a record
\* that expires at this very instant
C15_Witness ==
    /\ last.op = "sweep" /\ last.res.count = 2
    /\ \E v \in DOMAIN tokens : tokens[v].expires_at = now

\* C16: revoke_token on an active record makes it inactive and returns true
\* (logout answers); on an absent or inactive record it leaves the store
\* unchanged and returns false (logout raises); revoking a second time
\* changes nothing more.
C16_RevokeIdempotent ==
    [][\A v \in TokenValues \cup {UnknownValue} :
          Logout(v) =>
              /\ IF v \in DOMAIN tokens /\ tokens[v].is_active
                 THEN /\ last'.res.kind = "ok"
                      /\ tokens' = [tokens EXCEPT ![v].is_active = FALSE]
                 ELSE /\ last'.res = Unauthorized("Invalid refresh token")
                      /\ tokens' = tokens
              /\ get_by_token(tokens', v) = {}
              /\ Deactivated(tokens', get_by_token(tokens', v)) = tokens']_vars

\* revoke_token has just returned false for a record that is inactive
C16_Witness ==
    /\ last.op = "logout" /\ last.cred = "inactive"
    /\ last.res = Unauthorized("Invalid refresh token")

\* C17: revoke_user_tokens makes every active record of the principal
\* inactive, returns how many it changed, and leaves the records of every
\* other principal as they were.
C17_RevokeAllFrame ==
    [][\A u \in DOMAIN users :
          LogoutAll(u) =>
              LET mine == {v \in DOMAIN tokens : tokens[v].user_id = u}
              IN  /\ DOMAIN tokens' = DOMAIN tokens
                  /\ \A v \in mine : tokens'[v] = [tokens[v] EXCEPT !.is_active = FALSE]
                  /\ \A v \in DOMAIN tokens \ mine : tokens'[v] = tokens[v]
                  /\ last'.res.count =
                        Cardinality({v \in mine : tokens[v].is_active})]_vars

\* a logout-all has just revoked two records while another principal keeps
\* an active one
C17_Witness ==
    /\ last.op = "logout_all" /\ last.res.count = 2
    /\ \E v \in DOMAIN tokens : tokens[v].user_id # last.uid /\ tokens[v].is_active

(* ========================= principal deletion ========================= *)
\* whether a refresh record references the principal (auth_tokens.user_id)
Referenced(pk) == \E v \in DOMAIN tokens : tokens[v].user_id = pk

\* BaseRepository.delete(pk): get the row, DELETE it, commit.  The DELETE of
\* a User also clears its user_roles rows (secondary of User.roles).  No
\* statement looks at auth_tokens: whether the commit goes through for a
\* referenced row is up to the database (a foreign key that is enforced
\* refuses it, one that is not lets it pass), so both outcomes are steps.
delete(c, pk) ==
    \/ /\ users' = Deleted(users, {pk})
       /\ user_roles' = {ur \in user_roles : ur[1] # pk}
       /\ Reply(c, NoLoc, Message("deleted successfully", 1))
    \/ /\ Referenced(pk)
       /\ Reply(c, NoLoc, ServerError("IntegrityError"))
       /\ UNCHANGED <<users, user_roles>>

\* manage.py's user deletion: look the user up by email, delete it by id
CliDeleteUser(email) ==
    /\ LET found == get_by_email(users, email)
           c == [NoCall EXCEPT !.op = "delete_user"]
       IN  IF found = {}
           THEN /\ Reply(c, NoLoc, Message("not found", 0))
                /\ UNCHANGED <<users, user_roles>>
           ELSE \E u \in found : delete([c EXCEPT !.uid = u], u)
    /\ UNCHANGED <<now, tokens, nextTok, watch, rotated, revokedAll, held, issued, loggedOut,
                   role_permissions, guard>>

InitDelete == users = Users(TRUE) /\ watch = {"delete_user"} /\ Start

NextDelete ==
    \/ \E e \in Emails, w \in Passwords : Authenticate(e, w)
    \/ \E v \in TokenValues \cup {UnknownValue} : Logout(v)
    \/ \E e \in Emails : CliDeleteUser(e)

\* logins, logouts and deletions of principals, one at a time
SpecDelete == InitDelete /\ [][NextDelete]_vars

\* C19: in every reachable state the owning principal id of every refresh
\* record in the store refers to an existing principal.
C19_OwnerExists == \A v \in DOMAIN tokens : tokens[v].user_id \in DOMAIN users

(* ========================== registration ============================== *)
\* the UserCreate bodies two clients may send: alice@x and alice are taken
UserIns ==
    [email : {"alice@x", "carol@x", "dave@x"},
     username : {"alice", "carol", "dave"},
     password : {"pw-c"}]

\* the primary key the database gives the next inserted user
NextUserId(tbl) == Cardinality(DOMAIN tbl) + 1

\* the unique indexes on users.email and users.username accept the row
UniqueAccepts(tbl, user_in) ==
    /\ get_by_email(tbl, user_in.email) = {}
    /\ get_by_username(tbl, user_in.username) = {}

\* create_user returns db_user
Created(id) == [NoResult EXCEPT !.kind = "ok", !.detail = "user", !.user_id = id]

CreateFrame ==
    UNCHANGED <<now, tokens, nextTok, watch, rotated, revokedAll, held, issued, loggedOut, rbac>>

\* UserService.create_user, lines 25-26: await get_by_email
CreateUser(p, user_in) ==
    /\ Idle(p)
    /\ LET c == [NoCall EXCEPT !.op = "create_user", !.user_in = user_in]
       IN  IF get_by_email(users, user_in.email) # {}
           THEN Respond(p, c, NoLoc, Validation("Email already registered"))
           ELSE Suspend(p, c, NoLoc, "get_by_username")
    /\ UNCHANGED users
    /\ CreateFrame

\* lines 27-28: await get_by_username
CreateUserCheckUsername(p) ==
    /\ pc[p] = "get_by_username"
    /\ IF get_by_username(users, call[p].user_in.username) # {}
       THEN Respond(p, call[p], loc[p], Validation("Username already taken"))
       ELSE Suspend(p, call[p], loc[p], "commit_user")
    /\ UNCHANGED users
    /\ CreateFrame

\* lines 30-39: hash, add, await commit (the INSERT meets the unique
\* indexes), refresh, return
CreateUserCommit(p) ==
    /\ pc[p] = "commit_user"
    /\ LET user_in == call[p].user_in
           id == NextUserId(users)
       IN  IF UniqueAccepts(users, user_in)
           THEN /\ users' = [u \in DOMAIN users \cup {id} |->
                               IF u = id
                               THEN UserRow(user_in.email, user_in.username,
                                            get_password_hash(user_in.password, "s3"),
                                            TRUE, FALSE)
                               ELSE users[u]]
                /\ Respond(p, [call[p] EXCEPT !.uid = id],
                           [loc[p] EXCEPT !.created = id], Created(id))
           ELSE /\ Respond(p, call[p], loc[p], ServerError("IntegrityError"))
                /\ UNCHANGED users
    /\ CreateFrame

InitCreate == users = Users(TRUE) /\ watch = {"create_user"} /\ Start

NextCreate ==
    \/ \E p \in Procs, user_in \in UserIns : CreateUser(p, user_in)
    \/ \E p \in Procs : CreateUserCheckUsername(p)
    \/ \E p \in Procs : CreateUserCommit(p)

\* two clients registering concurrently
SpecCreate == InitCreate /\ [][NextCreate]_vars

\* C20: under every interleaving of create_user calls no two stored
\* principals share an email or a username, and a call that adds no
\* principal because of a duplicate ends with the duplicate error of
\* create_user (ValidationException), whether it lost at the check or at the
\* insert.
C20_UniqueOrConflict ==
    /\ \A u1, u2 \in DOMAIN users :
          u1 # u2 => /\ users[u1].email # users[u2].email
                     /\ users[u1].username # users[u2].username
    /\ (last.op = "create_user" /\ last.created = 0)
          => last.res.kind = "ValidationException"

(* ====================== rotation, step by step ======================== *)
\* C21: within a rotate call the replacement record is created and the new
\* pair returned only after that call's own revoke_token made the presented
\* record inactive; a call whose revoke_token found no record to change
\* fails and creates nothing.
C21_CreateOnlyAfterOwnRevoke ==
    [][\A p \in Procs :
          RotateCreate(p) =>
              /\ (tokens' # tokens \/ last'.res.kind = "ok") => loc[p].revoked
              /\ ~loc[p].revoked => (tokens' = tokens /\ last'.res.kind # "ok")]_vars

(* ======================== queries of the store ======================== *)
\* TokenRepository.is_token_valid: get_by_token's row exists, is active and
\* does not have expires_at < now
is_token_valid(tbl, token, t) ==
    LET found == get_by_token(tbl, token)
    IN  IF found = {} THEN FALSE
        ELSE IF \E v \in found : ~tbl[v].is_active THEN FALSE
        ELSE IF \E v \in found : tbl[v].expires_at < t THEN FALSE
        ELSE TRUE

\* what a query returns: the row of a value, None, or a bool
FoundRow(v) == [NoResult EXCEPT !.kind = "ok", !.detail = "row", !.refresh = v]
None == [NoResult EXCEPT !.kind = "ok", !.detail = "None"]
Bool(b) == [NoResult EXCEPT !.kind = "ok", !.detail = IF b THEN "True" ELSE "False"]

QueryFrame ==
    UNCHANGED <<now, users, rbac, watch, tokens, nextTok, rotated, revokedAll, held, issued, loggedOut>>

\* a caller of TokenRepository.get_by_token
GetByToken(token) ==
    /\ LET found == get_by_token(tokens, token)
           c == [NoCall EXCEPT !.op = "get_by_token", !.tok = token,
                               !.cred = Validity(tokens, token, now)]
       IN  IF found = {} THEN Reply(c, NoLoc, None)
           ELSE \E v \in found : Reply(c, NoLoc, FoundRow(v))
    /\ QueryFrame

\* a caller of TokenRepository.is_token_valid
IsTokenValid(token) ==
    /\ Reply([NoCall EXCEPT !.op = "is_token_valid", !.tok = token,
                            !.cred = Validity(tokens, token, now)],
             NoLoc, Bool(is_token_valid(tokens, token, now)))
    /\ QueryFrame

InitQuery ==
    users = Users(TRUE) /\ watch = {"get_by_token", "is_token_valid"} /\ Start

NextQuery ==
    \/ \E t \in RefreshInstants : Tick(t)
    \/ \E e \in Emails, w \in Passwords : Authenticate(e, w)
    \/ \E v \in TokenValues \cup {UnknownValue} : Logout(v)
    \/ Sweep
    \/ \E v \in TokenValues \cup {UnknownValue} : GetByToken(v)
    \/ \E v \in TokenValues \cup {UnknownValue} : IsTokenValid(v)

\* queries of the refresh store among logins, logouts and sweeps
SpecQuery == InitQuery /\ [][NextQuery]_vars

\* C22: get_by_token returns the stored record of a value whenever one
\* exists, whatever its active flag and its expiry, and None only when no
\* record has the value.
C22_LookupAnyRecord ==
    [][\A v \in TokenValues \cup {UnknownValue} :
          GetByToken(v) =>
              IF v \in DOMAIN tokens THEN last'.res = FoundRow(v)
              ELSE last'.res = None]_vars

\* C23: is_token_valid is true exactly when a record with the value exists,
\* is active and has expires_at strictly greater than now.
C23_ValidIffStrictlyUnexpired ==
    [][\A v \in TokenValues \cup {UnknownValue} :
          IsTokenValid(v) =>
              (last'.res = Bool(TRUE)
                  <=> /\ v \in DOMAIN tokens
                      /\ tokens[v].is_active
                      /\ tokens[v].expires_at > now)]_vars

(* ===================== inserts into the store ========================= *)
\* a caller of TokenRepository.create_token with a value of its choice: the
\* INSERT meets the unique index on auth_tokens.token at the commit
CreateToken(token, user_id) ==
    /\ LET c == [NoCall EXCEPT !.op = "create_token", !.tok = token, !.uid = user_id,
                               !.cred = Validity(tokens, token, now)]
       IN  IF token \in DOMAIN tokens
           THEN /\ Reply(c, NoLoc, ServerError("IntegrityError"))
                /\ UNCHANGED tokens
           ELSE /\ tokens' = create_token(tokens, token, user_id, now + RefreshTTL)
                /\ Reply(c, [NoLoc EXCEPT !.created = token], FoundRow(token))
    /\ issued' = IF token \in DOMAIN tokens THEN issued ELSE Issue(issued, token, user_id, "create_token")
    /\ UNCHANGED loggedOut
    /\ UNCHANGED <<now, users, rbac, watch, nextTok, rotated, revokedAll, held>>

InitInsert == users = Users(TRUE) /\ watch = {"create_token"} /\ Start

NextInsert ==
    \/ \E t \in RefreshInstants : Tick(t)
    \/ \E v \in TokenValues, u \in DOMAIN users : CreateToken(v, u)
    \/ \E v \in TokenValues \cup {UnknownValue} : Logout(v)
    \/ Sweep

\* inserts of chosen values among logouts and sweeps
SpecInsert == InitInsert /\ [][NextInsert]_vars

\* C24: create_token inserts a new active record when no record has the
\* value, and fails with the Conflict error kind, leaving the store
\* unchanged, when a record with the value exists, active or not.
C24_CreateOrConflict ==
    [][\A v \in TokenValues, u \in DOMAIN users :
          CreateToken(v, u) =>
              IF v \notin DOMAIN tokens
              THEN /\ tokens' = create_token(tokens, v, u, now + RefreshTTL)
                   /\ tokens'[v] = Row(u, now + RefreshTTL, TRUE)
                   /\ last'.res = FoundRow(v)
              ELSE /\ tokens' = tokens
                   /\ last'.res.kind = "Conflict"]_vars

(* ====================== ownership of values ========================== *)
InitIssue == users = Users(TRUE) /\ watch = {"issue"} /\ Start

NextIssue ==
    \/ \E t \in RefreshInstants : Tick(t)
    \/ \E e \in Emails, w \in Passwords : Authenticate(e, w)
    \/ \E v \in TokenValues \cup {UnknownValue} : Rotate("c1", v)
    \/ RotateRevokeSelect("c1")
    \/ RotateRevokeCommit("c1")
    \/ RotateCreate("c1")
    \/ \E v \in TokenValues \cup {UnknownValue} : Logout(v)
    \/ \E u \in DOMAIN users : LogoutAll(u)
    \/ Sweep

\* logins, rotations, logouts and sweeps, with the history of issued values
SpecIssue == InitIssue /\ [][NextIssue]_vars

Headers == {NoHeader} \cup {BearerHeader(x) : x \in Presentable}
                     \cup {BasicHeader(x) : x \in Presentable}
Cookies == {NoToken} \cup Presentable

InitExtract == users = Users(FALSE) /\ watch = {"bearer", "carriers"} /\ Start

NextExtract ==
    \/ \E t \in AccessInstants : Tick(t)
    \/ \E e \in Emails, w \in Passwords : Authenticate(e, w)
    \/ \E a \in Headers, c \in Cookies : Bearer(Request(a, c))

\* requests carrying a header, a cookie, both or neither
SpecExtract == InitExtract /\ [][NextExtract]_vars

\* C26: when a request carries a bearer Authorization header, the header's
\* token is the one validated, whatever the access_token cookie holds; the
\* cookie's token is validated only when there is no bearer Authorization
\* header.
C26_HeaderPreferred ==
    [][\A a \in Headers, c \in Cookies :
          Bearer(Request(a, c)) =>
              LET r == [kind |-> last'.res.kind, detail |-> last'.res.detail,
                        user_id |-> last'.res.user_id]
              IN  IF a.scheme = "Bearer"
                  THEN /\ last'.presented = a.token
                       /\ r = TokenBearer(Request(a, NoToken), now)
                  ELSE /\ last'.presented = c
                       /\ r = TokenBearer(Request(NoHeader, c), now)]_vars

\* a request was accepted on the token of its header while its cookie held
\* another token
C26_Witness ==
    /\ last.op = "bearer" /\ last.cred = "both, different"
    /\ last.presented \in held /\ last.res.kind = "ok"

(* ========================= get_current_user =========================== *)
\* get_current_user returns the User row
CurrentUser(id) == [NoResult EXCEPT !.kind = "ok", !.detail = "user", !.user_id = id]

\* get_current_user, lines 100-107, for the user_id TokenBearer returned:
\* user_repo.get, then the test "user is None or not user.status".  Reading
\* an attribute the row does not have raises AttributeError.
get_current_user(tbl, user_id) ==
    IF user_id \notin DOMAIN tbl THEN Unauthorized("User not found or not active")
    ELSE IF "status" \notin DOMAIN tbl[user_id] THEN ServerError("AttributeError")
    ELSE IF ~tbl[user_id].status THEN Unauthorized("User not found or not active")
    ELSE CurrentUser(user_id)

\* a request to a route that depends on get_current_user: token_scheme runs
\* first, its error ends the request
GetCurrentUser(request) ==
    /\ LET token_data == TokenBearer(request, now)
           c == [NoCall EXCEPT !.op = "get_current_user",
                               !.presented = ExtractToken(request)]
       IN  IF token_data.kind # "ok"
           THEN Reply(c, NoLoc, [NoResult EXCEPT !.kind = token_data.kind,
                                                 !.detail = token_data.detail])
           ELSE Reply([c EXCEPT !.uid = token_data.user_id], NoLoc,
                      get_current_user(users, token_data.user_id))
    /\ UNCHANGED <<now, users, rbac, watch, tokens, nextTok, rotated, revokedAll,
                   held, issued, loggedOut>>

InitResolve == users = Users(TRUE) /\ watch = {"get_current_user"} /\ Start

NextResolve ==
    \/ \E t \in AccessInstants : Tick(t)
    \/ \E e \in Emails, w \in Passwords : Authenticate(e, w)
    \/ \E e \in Emails : CliDeleteUser(e)
    \/ \E a \in {NoHeader} \cup {BearerHeader(x) : x \in Presentable} :
          GetCurrentUser(Request(a, NoToken))

\* authenticated requests among logins and deletions of principals
SpecResolve == InitResolve /\ [][NextResolve]_vars

\* C27: a request carrying a valid access token resolves to the stored
\* principal whose id is the token's subject when that principal exists and
\* is active, and is refused as unauthenticated when the principal is absent
\* or inactive; it ends in no other outcome.
C27_ResolvesOrUnauthenticated ==
    [][\A x \in Presentable :
          (GetCurrentUser(Request(BearerHeader(x), NoToken))
              /\ TokenBearer(Request(BearerHeader(x), NoToken), now).kind = "ok")
          => LET id == IntOf(x.sub)
             IN  IF id \in DOMAIN users /\ users[id].is_active
                 THEN last'.res = CurrentUser(id)
                 ELSE last'.res.kind = "Unauthorized"]_vars

(* ======================= deactivated principals ======================= *)
\* an administrator sets a principal's active flag to false
DeactivateUser(u) ==
    /\ users[u].is_active
    /\ users' = [users EXCEPT ![u].is_active = FALSE]
    /\ UNCHANGED <<now, tokens, nextTok, pc, call, loc, watch, last,
                   rotated, revokedAll, held, issued, loggedOut, rbac>>

InitInactive == users = Users(TRUE) /\ watch = {"authenticate", "rotate"} /\ Start

NextInactive ==
    \/ \E t \in ConcurrentInstants : Tick(t)
    \/ \E e \in Emails, w \in Passwords : Authenticate(e, w)
    \/ \E v \in TokenValues \cup {UnknownValue} : Rotate("c1", v)
    \/ RotateRevokeSelect("c1")
    \/ RotateRevokeCommit("c1")
    \/ RotateCreate("c1")
    \/ \E u \in DOMAIN users : DeactivateUser(u)

\* logins and rotations among deactivations of principals
SpecInactive == InitInactive /\ [][NextInactive]_vars

\* C28: while a principal's active flag is false, authenticate with its
\* correct password and rotate with an active, unexpired refresh token of
\* that principal are both refused (401), create no refresh record and
\* leave the active flag of the presented refresh token as it was.
C28_InactiveGetsNothing ==
    [][/\ \A e \in Emails, w \in Passwords :
            (/\ Authenticate(e, w)
             /\ Credential(e, w) = "good"
             /\ \E u \in get_by_email(users, e) : ~users[u].is_active)
            => (last'.res.kind = "Unauthorized" /\ tokens' = tokens /\ held' = held)
       /\ \A v \in TokenValues :
            (/\ Rotate("c1", v)
             /\ Validity(tokens, v, now) = "valid"
             /\ ~users[tokens[v].user_id].is_active)
            => /\ last'.res = Unauthorized("User not found or inactive")
               /\ pc'["c1"] = "idle"
               /\ tokens' = tokens /\ held' = held]_vars

\* a rotate was refused because of its principal, whose active and
\* unexpired refresh record is still active
C28_Witness ==
    /\ last.op = "rotate" /\ last.res = Unauthorized("User not found or inactive")
    /\ \E v \in DOMAIN tokens :
          /\ Validity(tokens, v, now) = "valid"
          /\ ~users[tokens[v].user_id].is_active

(* ============================= sessions =============================== *)
InitSessions == users = Users(FALSE) /\ watch = {"issue"} /\ Start

NextSessions ==
    \/ \E e \in Emails, w \in Passwords : Authenticate(e, w)
    \/ \E p \in Procs, v \in TokenValues \cup {UnknownValue} : Rotate(p, v)
    \/ \E p \in Procs : RotateRevokeSelect(p)
    \/ \E p \in Procs : RotateRevokeCommit(p)
    \/ \E p \in Procs : RotateCreate(p)

\* logins and concurrent rotations, with the history of issued values
SpecSessions == InitSessions /\ [][NextSessions]_vars

\* the refresh values successful logins of the principal returned
LoginsOf(user_id) ==
    {v \in DOMAIN issued :
        issued[v].user_id = user_id /\ issued[v].op = "authenticate"}

\* C29: in every interleaving of rotate calls the number of active refresh
\* records of a principal is at most the number of that principal's
\* successful logins.
C29_NoMoreSessionsThanLogins ==
    \A u \in DOMAIN users :
        Cardinality(ActiveTokensOf(tokens, u)) <= Cardinality(LoginsOf(u))

(* ============================== logout ================================ *)
InitLogout ==
    users = Users(FALSE) /\ watch = {"logout", "rotate", "logged_out"} /\ Start

NextLogout ==
    \/ \E t \in ConcurrentInstants : Tick(t)
    \/ \E e \in Emails, w \in Passwords : Authenticate(e, w)
    \/ \E v \in TokenValues \cup {UnknownValue} : Rotate("c1", v)
    \/ RotateRevokeSelect("c1")
    \/ RotateRevokeCommit("c1")
    \/ RotateCreate("c1")
    \/ \E v \in TokenValues \cup {UnknownValue} : Logout(v)

\* logins, rotations and logouts, with the history of logged-out values
SpecLogout == InitLogout /\ [][NextLogout]_vars

\* C30: logout(t) succeeds exactly when t is the value of an active refresh
\* record, expired or not, and otherwise raises Unauthorized and leaves the
\* store unchanged; after a successful logout(t) every rotate(t) and every
\* logout(t) that starts is refused.
C30_LogoutOnceThenRefused ==
    [][/\ \A v \in TokenValues \cup {UnknownValue} :
            Logout(v) =>
                IF v \in DOMAIN tokens /\ tokens[v].is_active
                THEN /\ last'.res = Message("Successfully logged out", 0)
                     /\ tokens' = [tokens EXCEPT ![v].is_active = FALSE]
                ELSE /\ last'.res = Unauthorized("Invalid refresh token")
                     /\ tokens' = tokens
       /\ (last'.op = "rotate" /\ last'.afterLogout)
            => (last'.res = NotFound /\ last'.created = 0 /\ ~last'.revoked)
       /\ (last'.op = "logout" /\ last'.afterLogout)
            => last'.res = Unauthorized("Invalid refresh token")]_vars

\* a rotate of a logged-out value, never rotated before and not expired,
\* was refused
C30_Witness ==
    /\ last.op = "rotate" /\ last.afterLogout /\ ~last.later
    /\ last.res = NotFound
    /\ \E v \in loggedOut : v \in DOMAIN tokens /\ tokens[v].expires_at >= now

====
